---- MODULE Spec2Model ----
(***************************************************************************)
(* Model of the four-stage showcase pipeline of DSCI_532-projects:         *)
(*   scripts/01-fetch_repos.py            Repository Discovery             *)
(*   scripts/02-parse_repos.py            Name Decomposition               *)
(*   scripts/03-download_sketches.py      Asset Retrieval                  *)
(*   scripts/04-generate_quarto_pages.py  Page Generation                  *)
(*                                                                         *)
(* Text is modelled as a sequence of one-character strings, so that        *)
(* prefix tests, splitting, numeric parsing and formatting are computed    *)
(* character by character as the Python code and its libraries do.         *)
(***************************************************************************)
EXTENDS Integers, Sequences, FiniteSets, TLC

VARIABLES
  p_name,      \* parse_repo_name: argument repo_name
  p_pattern,   \* parse_repo_name: argument pattern
  p_result     \* parse_repo_name: returned pair, or NoResult before the call

VARIABLES
  tk_pc,        \* get_github_token / main of 01-fetch_repos.py: next line to run
  tk_env0,      \* the process environment when the script started
  tk_environ,   \* os.environ (load_dotenv adds to it)
  tk_dotenv,    \* the key/value pairs of the .env file
  tk_prompt,    \* what the user types at the getpass prompt
  tk_token,     \* local variable token
  tk_requests   \* repository-listing requests made so far

VARIABLES
  csv,          \* data/dsci_532_repos.csv: NoCsv, or its columns and rows of text
  group_data,   \* whether the directory group_data/ exists
  group_dirs,   \* the directories group_data/<name>/ that exist
  sketches,     \* group directory name -> content of its sketch.png
  projects,     \* whether the directory projects/ exists
  pages,        \* page key -> content of projects/group-<key>.qmd
  s3,           \* download_all_sketches in progress: its locals
  last,         \* the stage invoked last and how it went
  listing,      \* the names the last discovery matched
  run_progress, \* stages 1..n of the current run completed in order
  runs_left,    \* discovery invocations still allowed
  org           \* the names of the organization's repositories

parseVars == <<p_name, p_pattern, p_result>>
tokVars == <<tk_pc, tk_env0, tk_environ, tk_dotenv, tk_prompt, tk_token, tk_requests>>
diskVars == <<csv, group_data, group_dirs, sketches, projects, pages>>
pipeVars == <<diskVars, s3, last, listing, run_progress, runs_left, org>>

vars == <<parseVars, tokVars, pipeVars>>

(***************************************************************************)
(* Bounds                                                                  *)
(***************************************************************************)
MaxNameLen == 4
MaxPatLen == 2
MaxRepos == 2
MaxRuns == 2
MaxDiscoveries == 1

(***************************************************************************)
(* Text helpers                                                            *)
(***************************************************************************)
EmptyStr == << >>

RECURSIVE StringsUpTo(_, _)
StringsUpTo(alphabet, n) ==
  IF n = 0 THEN {EmptyStr}
  ELSE LET shorter == StringsUpTo(alphabet, n - 1)
       IN shorter \cup {Append(s, c) : s \in shorter, c \in alphabet}

\* str.startswith
StartsWith(s, prefix) ==
  /\ Len(prefix) <= Len(s)
  /\ SubSeq(s, 1, Len(prefix)) = prefix

\* position of the first occurrence of character c in s at or after i, 0 if none
RECURSIVE FirstIndex(_, _, _)
FirstIndex(s, c, i) ==
  IF i > Len(s) THEN 0
  ELSE IF s[i] = c THEN i
  ELSE FirstIndex(s, c, i + 1)

\* position of the last occurrence of character c in s at or before i, 0 if none
RECURSIVE LastIndex(_, _, _)
LastIndex(s, c, i) ==
  IF i < 1 THEN 0
  ELSE IF s[i] = c THEN i
  ELSE LastIndex(s, c, i - 1)

\* a split at the LAST separator (str.rsplit(c, 1)) instead of the first
SplitAtLast(s, c) ==
  LET k == LastIndex(s, c, Len(s))
  IN IF k = 0 THEN <<s>>
     ELSE <<SubSeq(s, 1, k - 1), SubSeq(s, k + 1, Len(s))>>

\* str.split(c, 1): at most one split, at the first separator
SplitOnce(s, c) ==
  LET k == FirstIndex(s, c, 1)
  IN IF k = 0 THEN <<s>>
     ELSE <<SubSeq(s, 1, k - 1), SubSeq(s, k + 1, Len(s))>>

(***************************************************************************)
(* 02-parse_repos.py: parse_repo_name                                      *)
(***************************************************************************)
parse_repo_name(repo_name, pattern) ==
  IF ~StartsWith(repo_name, pattern) THEN <<EmptyStr, EmptyStr>>
  ELSE LET remainder == SubSeq(repo_name, Len(pattern) + 1, Len(repo_name))
           parts == SplitOnce(remainder, "_")
       IN IF Len(parts) < 2 THEN <<parts[1], EmptyStr>>
          ELSE <<parts[1], parts[2]>>

NoResult == <<"no result">>

\* parse_repo_name is not being exercised
ParseIdle ==
  /\ p_name = EmptyStr
  /\ p_pattern = EmptyStr
  /\ p_result = NoResult

NoCsv == [exists |-> FALSE, cols |-> {}, rows |-> << >>]
S3Idle == [pc |-> "idle", df |-> NoCsv, idx |-> 0, branch |-> 0,
           sketch_paths |-> << >>, attempts |-> << >>]
NoStage == [stage |-> 0, error |-> "none", at |-> 0, upstream_ok |-> TRUE,
            worked |-> FALSE, pages_created |-> 0, written |-> {}]

\* an empty workspace: no dataset, no directory, no file
EmptyWorkspace ==
  /\ csv = NoCsv
  /\ group_data = FALSE
  /\ group_dirs = {}
  /\ sketches = << >>
  /\ projects = FALSE
  /\ pages = << >>

\* the pipeline is not being exercised
PipeIdle ==
  /\ EmptyWorkspace
  /\ s3 = S3Idle
  /\ last = NoStage
  /\ listing = << >>
  /\ run_progress = 0
  /\ runs_left = 0
  /\ org = {}

(***************************************************************************)
(* 01-fetch_repos.py: get_github_token and main                            *)
(***************************************************************************)
Unset == <<"<unset>">>
TokenKeys == {"GITHUB_TOKEN", "GITHUB_PAT"}

IsSpace(c) == c = " "

\* str.strip(): leading and trailing whitespace removed
RECURSIVE lstrip(_)
lstrip(s) == IF s # EmptyStr /\ IsSpace(Head(s)) THEN lstrip(Tail(s)) ELSE s

RECURSIVE rstrip(_)
rstrip(s) ==
  IF s # EmptyStr /\ IsSpace(s[Len(s)]) THEN rstrip(SubSeq(s, 1, Len(s) - 1)) ELSE s

strip(s) == rstrip(lstrip(s))

\* os.getenv(key, ""): the default only when the key is not in the environment
getenv(environ, key) == IF environ[key] = Unset THEN EmptyStr ELSE environ[key]

\* load_dotenv(): override=False, a key already in os.environ is left as it is
load_dotenv(environ, file) ==
  [k \in TokenKeys |->
     IF environ[k] # Unset THEN environ[k]
     ELSE IF file[k] # Unset THEN file[k]
     ELSE Unset]

TokIdle ==
  /\ tk_pc = "idle"
  /\ tk_env0 = [k \in TokenKeys |-> Unset]
  /\ tk_environ = [k \in TokenKeys |-> Unset]
  /\ tk_dotenv = [k \in TokenKeys |-> Unset]
  /\ tk_prompt = EmptyStr
  /\ tk_token = EmptyStr
  /\ tk_requests = 0

\* the values a source may hold: not there, empty, blank, or a padded secret
SourceValues(secret) == {Unset, EmptyStr, <<" ">>, <<" ", secret, " ">>}

InitToken ==
  /\ tk_pc = "l24"
  /\ tk_env0 \in {[GITHUB_TOKEN |-> a, GITHUB_PAT |-> b] :
                    a \in SourceValues("a"), b \in SourceValues("b")}
  /\ tk_environ = tk_env0
  /\ tk_dotenv \in {[GITHUB_TOKEN |-> c, GITHUB_PAT |-> d] :
                      c \in SourceValues("c"), d \in SourceValues("d")}
  /\ tk_prompt \in SourceValues("e") \ {Unset}
  /\ tk_token = EmptyStr
  /\ tk_requests = 0
  /\ ParseIdle
  /\ PipeIdle

\* line 24
TkEnvToken ==
  /\ tk_pc = "l24"
  /\ tk_token' = strip(getenv(tk_environ, "GITHUB_TOKEN"))
  /\ tk_pc' = "l27"
  /\ UNCHANGED <<tk_env0, tk_environ, tk_dotenv, tk_prompt, tk_requests>>
  /\ UNCHANGED <<parseVars, pipeVars>>

\* lines 27-28
TkEnvPat ==
  /\ tk_pc = "l27"
  /\ tk_token' = IF tk_token = EmptyStr
                 THEN strip(getenv(tk_environ, "GITHUB_PAT"))
                 ELSE tk_token
  /\ tk_pc' = "l31"
  /\ UNCHANGED <<tk_env0, tk_environ, tk_dotenv, tk_prompt, tk_requests>>
  /\ UNCHANGED <<parseVars, pipeVars>>

\* lines 31-33
TkDotenvToken ==
  /\ tk_pc = "l31"
  /\ IF tk_token = EmptyStr
     THEN /\ tk_environ' = load_dotenv(tk_environ, tk_dotenv)
          /\ tk_token' = strip(getenv(tk_environ', "GITHUB_TOKEN"))
     ELSE UNCHANGED <<tk_environ, tk_token>>
  /\ tk_pc' = "l36"
  /\ UNCHANGED <<tk_env0, tk_dotenv, tk_prompt, tk_requests>>
  /\ UNCHANGED <<parseVars, pipeVars>>

\* lines 36-37
TkDotenvPat ==
  /\ tk_pc = "l36"
  /\ tk_token' = IF tk_token = EmptyStr
                 THEN strip(getenv(tk_environ, "GITHUB_PAT"))
                 ELSE tk_token
  /\ tk_pc' = "l40"
  /\ UNCHANGED <<tk_env0, tk_environ, tk_dotenv, tk_prompt, tk_requests>>
  /\ UNCHANGED <<parseVars, pipeVars>>

\* lines 40-43
TkPrompt ==
  /\ tk_pc = "l40"
  /\ tk_token' = IF tk_token = EmptyStr THEN strip(tk_prompt) ELSE tk_token
  /\ tk_pc' = "l45"
  /\ UNCHANGED <<tk_env0, tk_environ, tk_dotenv, tk_prompt, tk_requests>>
  /\ UNCHANGED <<parseVars, pipeVars>>

\* lines 45-50: raise ValueError, or return token to main (line 146)
TkReturn ==
  /\ tk_pc = "l45"
  /\ tk_pc' = IF tk_token = EmptyStr THEN "raised" ELSE "l149"
  /\ UNCHANGED <<tk_env0, tk_environ, tk_dotenv, tk_prompt, tk_token, tk_requests>>
  /\ UNCHANGED <<parseVars, pipeVars>>

\* main, line 149: fetch_ubc_mds_repos lists the organization's repositories
TkFetch ==
  /\ tk_pc = "l149"
  /\ tk_requests' = tk_requests + 1
  /\ tk_pc' = "fetched"
  /\ UNCHANGED <<tk_env0, tk_environ, tk_dotenv, tk_prompt, tk_token>>
  /\ UNCHANGED <<parseVars, pipeVars>>

NextToken ==
  \/ TkEnvToken
  \/ TkEnvPat
  \/ TkDotenvToken
  \/ TkDotenvPat
  \/ TkPrompt
  \/ TkReturn
  \/ TkFetch

SpecToken == InitToken /\ [][NextToken]_vars

(***************************************************************************)
(* C9: get_github_token returns the first non-empty value (after           *)
(* stripping) among environment GITHUB_TOKEN, environment GITHUB_PAT,      *)
(* .env GITHUB_TOKEN, .env GITHUB_PAT and the prompt, in this order; it    *)
(* raises when all five are empty, before any repository-listing request.  *)
(***************************************************************************)
C9_Sources ==
  <<strip(getenv(tk_env0, "GITHUB_TOKEN")),
    strip(getenv(tk_env0, "GITHUB_PAT")),
    strip(getenv(tk_dotenv, "GITHUB_TOKEN")),
    strip(getenv(tk_dotenv, "GITHUB_PAT")),
    strip(tk_prompt)>>

C9_FirstNonEmptyWins ==
  /\ tk_pc \in {"l149", "fetched"} =>
       \E i \in 1..5 :
         /\ C9_Sources[i] # EmptyStr
         /\ \A j \in 1..(i - 1) : C9_Sources[j] = EmptyStr
         /\ tk_token = C9_Sources[i]
  /\ tk_pc = "raised" =>
       /\ \A i \in 1..5 : C9_Sources[i] = EmptyStr
       /\ tk_requests = 0

\* what the code guarantees: a non-empty token is returned, and a raise makes no request
C9_ReturnedTokenNonEmpty ==
  /\ tk_pc \in {"l149", "fetched"} => tk_token # EmptyStr
  /\ tk_pc = "raised" => tk_requests = 0


(***************************************************************************)
(* Specification SpecParse: parse_repo_name applied to every pair of       *)
(* strings over a small alphabet.                                          *)
(***************************************************************************)
ParseAlphabet == {"p", "_", "a"}
InitParse ==
  /\ p_name \in StringsUpTo(ParseAlphabet, MaxNameLen)
  /\ p_pattern \in StringsUpTo(ParseAlphabet, MaxPatLen)
  /\ p_result = NoResult
  /\ TokIdle
  /\ PipeIdle

ParseCall ==
  /\ p_result = NoResult
  /\ p_result' = parse_repo_name(p_name, p_pattern)
  /\ UNCHANGED <<p_name, p_pattern>>
  /\ UNCHANGED <<tokVars, pipeVars>>

NextParse == ParseCall

SpecParse == InitParse /\ [][NextParse]_vars

(***************************************************************************)
(* C1: parse_repo_name returns ("", "") when name does not start with      *)
(* pattern; otherwise, with remainder the text after the prefix,           *)
(* (remainder, "") when remainder holds no "_", and else (text before the  *)
(* first "_", everything after the first "_", later underscores intact);   *)
(* a non-empty group_number never contains "_".                            *)
(***************************************************************************)
C1_Remainder == SubSeq(p_name, Len(p_pattern) + 1, Len(p_name))

C1_ParseContract ==
  p_result # NoResult =>
    /\ Len(p_result) = 2
    /\ ~StartsWith(p_name, p_pattern) => p_result = <<EmptyStr, EmptyStr>>
    /\ StartsWith(p_name, p_pattern) =>
         LET r == C1_Remainder
         IN /\ (\A i \in 1..Len(r) : r[i] # "_") => p_result = <<r, EmptyStr>>
            /\ \A k \in 1..Len(r) :
                 (r[k] = "_" /\ \A j \in 1..(k - 1) : r[j] # "_") =>
                   p_result = <<SubSeq(r, 1, k - 1), SubSeq(r, k + 1, Len(r))>>
    /\ \A i \in 1..Len(p_result[1]) : p_result[1][i] # "_"

\* a call whose remainder holds two underscores: the second stays in project_name
C1_Witness ==
  /\ p_result # NoResult
  /\ StartsWith(p_name, p_pattern)
  /\ Len(p_pattern) > 0
  /\ p_result[1] # EmptyStr
  /\ \E i \in 1..Len(p_result[2]) : p_result[2][i] = "_"

(***************************************************************************)
(* The dataset file and pandas' reading and writing of it                  *)
(***************************************************************************)
\* "DSCI-532_2026_", the prefix of 01-fetch_repos.py:149 and 02-parse_repos.py:25
Pattern == <<"D", "S", "C", "I", "-", "5", "3", "2", "_", "2", "0", "2", "6", "_">>

Columns == {"name", "group_number", "project_name", "sketch_path"}

Digits == <<"0", "1", "2", "3", "4", "5", "6", "7", "8", "9">>
IsDigit(c) == \E d \in 1..10 : Digits[d] = c
DigitValue(c) == (CHOOSE d \in 1..10 : Digits[d] = c) - 1

\* the value of a string of decimal digits
RECURSIVE DecValue(_)
DecValue(s) ==
  IF s = EmptyStr THEN 0
  ELSE DecValue(SubSeq(s, 1, Len(s) - 1)) * 10 + DigitValue(s[Len(s)])

\* str(n) of a non-negative integer
RECURSIVE IntToText(_)
IntToText(n) ==
  IF n < 10 THEN <<Digits[n + 1]>>
  ELSE IntToText(n \div 10) \o <<Digits[(n % 10) + 1]>>

\* text the CSV reader and float() take for a number; the names of the model
\* hold no sign, decimal point, exponent or blank, so: a run of digits
IsNumberText(s) == s # EmptyStr /\ \A i \in 1..Len(s) : IsDigit(s[i])

\* values of a DataFrame cell: a Python str, a numpy int64, a numpy float64, NaN
StrCell(s) == [t |-> "str", s |-> s, n |-> 0]
IntCell(n) == [t |-> "int", s |-> EmptyStr, n |-> n]
FloatCell(n) == [t |-> "float", s |-> EmptyStr, n |-> n]
NaN == [t |-> "nan", s |-> EmptyStr, n |-> 0]

\* the dtype pd.read_csv infers for a column from its texts: an empty field is
\* NaN; all numbers -> int64, or float64 when a field is missing; else object
ColumnKind(texts) ==
  LET present == {i \in 1..Len(texts) : texts[i] # EmptyStr}
  IN IF present = {} THEN "float"
     ELSE IF \A i \in present : IsNumberText(texts[i])
          THEN (IF present = 1..Len(texts) THEN "int" ELSE "float")
          ELSE "object"

ReadCell(kind, text) ==
  IF text = EmptyStr THEN NaN
  ELSE IF kind = "int" THEN IntCell(DecValue(text))
  ELSE IF kind = "float" THEN FloatCell(DecValue(text))
  ELSE StrCell(text)

\* pd.read_csv(path): every column typed by inference
read_csv(file) ==
  [exists |-> TRUE,
   cols |-> file.cols,
   rows |-> [i \in 1..Len(file.rows) |->
               [c \in Columns |->
                  ReadCell(ColumnKind([j \in 1..Len(file.rows) |-> file.rows[j][c]]),
                           file.rows[i][c])]]]

\* str(value), and the text to_csv writes for a cell (NaN: an empty field)
CellText(cell) ==
  IF cell.t = "str" THEN cell.s
  ELSE IF cell.t = "int" THEN IntToText(cell.n)
  ELSE IF cell.t = "float" THEN IntToText(cell.n) \o <<".", "0">>
  ELSE EmptyStr

\* df.to_csv(path, index=False)
to_csv(df) ==
  [exists |-> TRUE,
   cols |-> df.cols,
   rows |-> [i \in 1..Len(df.rows) |-> [c \in Columns |-> CellText(df.rows[i][c])]]]

\* pd.isna / pd.notna
isna(cell) == cell.t = "nan"

\* Python truthiness: "not value" is True for "", 0 and 0.0; NaN is truthy
Falsy(cell) ==
  \/ cell.t = "str" /\ cell.s = EmptyStr
  \/ cell.t \in {"int", "float"} /\ cell.n = 0

(***************************************************************************)
(* The organization's repositories that discovery may list                 *)
(***************************************************************************)
Repo(remainder) == Pattern \o remainder

OrgNames ==
  { Repo(<<"1", "_", "a">>),
    Repo(<<"0", "0", "7", "_", "a">>),
    Repo(<<"0", "_", "a">>),
    Repo(<<"1", "0", "_", "b", "_", "c">>),
    Repo(<<"9", "0", "0", "0", "_", "a">>),
    Repo(<<"a", "_", "x">>),
    Repo(<<"a", "_", "y">>),
    Repo(<<"b">>),
    Repo(EmptyStr),
    <<"o", "t", "h", "e", "r">> }

\* the sequences of at most n distinct elements of S
RECURSIVE DistinctSeqs(_, _)
DistinctSeqs(S, n) ==
  IF n = 0 THEN {<< >>}
  ELSE LET shorter == DistinctSeqs(S, n - 1)
       IN shorter \cup
          UNION {{Append(q, x) : x \in {y \in S : \A i \in 1..Len(q) : q[i] # y}} :
                   q \in shorter}

\* the elements of q that start with prefix, in order
RECURSIVE SelectStartsWith(_, _)
SelectStartsWith(q, prefix) ==
  IF q = << >> THEN << >>
  ELSE IF StartsWith(Head(q), prefix)
       THEN <<Head(q)>> \o SelectStartsWith(Tail(q), prefix)
       ELSE SelectStartsWith(Tail(q), prefix)


(***************************************************************************)
(* Stage entry points                                                      *)
(***************************************************************************)
Report(stage, error, upstream_ok, worked) ==
  [stage |-> stage, error |-> error, at |-> 0, upstream_ok |-> upstream_ok,
   worked |-> worked, pages_created |-> 0, written |-> {}]

\* no stage is running (the scripts are run one at a time)
Quiet == s3.pc = "idle"

\* main of stages 2-4: the input file does not exist, FileNotFoundError is raised
MissingInput(stage) ==
  /\ last' = Report(stage, "FileNotFoundError", FALSE, FALSE)
  /\ run_progress' = 0
  /\ s3' = S3Idle
  /\ UNCHANGED <<diskVars, listing, runs_left, org>>

\* csv.DictWriter: header and one row per repository, the seven listed fields
save_to_csv(repos) ==
  [exists |-> TRUE,
   cols |-> {},
   rows |-> [i \in 1..Len(repos) |->
               [c \in Columns |-> IF c = "name" THEN repos[i] ELSE EmptyStr]]]

\* 01-fetch_repos.py main, with the token get_github_token resolved ("" : it raised)
\* and the organization's repositories in the order the API lists them
Discover(token, org_listing) ==
  /\ Quiet
  /\ runs_left > 0
  /\ runs_left' = runs_left - 1
  /\ s3' = S3Idle
  /\ UNCHANGED org
  /\ IF token = EmptyStr
     THEN /\ last' = Report(1, "ValueError", TRUE, FALSE)
          /\ run_progress' = 0
          /\ UNCHANGED <<diskVars, listing>>
     ELSE LET repos == SelectStartsWith(org_listing, Pattern)
          IN /\ listing' = repos
             /\ csv' = IF repos # << >> THEN save_to_csv(repos) ELSE csv
             /\ last' = Report(1, "none", TRUE, TRUE)
             /\ run_progress' = 1
             /\ UNCHANGED <<group_data, group_dirs, sketches, projects, pages>>

Stage1 ==
  \E token \in {EmptyStr, <<"t">>}, org_listing \in DistinctSeqs(org, MaxRepos) :
    Discover(token, org_listing)

\* parse_repos_csv: the two derived columns set from each row's name
parse_repos(df) ==
  [df EXCEPT
     !.cols = @ \cup {"group_number", "project_name"},
     !.rows = [i \in 1..Len(df.rows) |->
                 LET parsed == parse_repo_name(df.rows[i]["name"].s, Pattern)
                 IN [df.rows[i] EXCEPT !["group_number"] = StrCell(parsed[1]),
                                       !["project_name"] = StrCell(parsed[2])]]]

\* 02-parse_repos.py main
Stage2 ==
  /\ Quiet
  /\ IF ~csv.exists
     THEN MissingInput(2)
     ELSE /\ csv' = to_csv(parse_repos(read_csv(csv)))
          /\ last' = Report(2, "none", TRUE, TRUE)
          /\ run_progress' = IF run_progress = 1 THEN 2 ELSE 0
          /\ s3' = S3Idle
          /\ UNCHANGED <<group_data, group_dirs, sketches, projects, pages,
                         listing, runs_left, org>>

(***************************************************************************)
(* 03-download_sketches.py                                                 *)
(***************************************************************************)
BranchesMasterFirst == <<"master", "main">>

Branches == <<"main", "master">>

Outcomes == {"200", "404", "Timeout", "ConnectionError"}
IsRequestException(outcome) == outcome \in {"Timeout", "ConnectionError"}

\* response.content of <full_name>/<branch>/img/sketch.png
Payload(repo_name, branch) == [repo |-> repo_name, branch |-> branch]

\* str(output_path.relative_to(group_data_dir.parent))
SketchPath(group_number) == <<"group_data/">> \o group_number \o <<"/sketch.png">>

\* main and download_all_sketches up to the loop (lines 147-106)
Stage3Start ==
  /\ Quiet
  /\ IF ~csv.exists
     THEN MissingInput(3)
     ELSE /\ s3' = [pc |-> "row", df |-> read_csv(csv), idx |-> 1, branch |-> 0,
                    sketch_paths |-> << >>, attempts |-> << >>]
          /\ group_data' = TRUE
          /\ last' = Report(3, "none", "group_number" \in csv.cols, ~group_data)
          /\ run_progress' = IF run_progress = 2 THEN 2 ELSE 0
          /\ UNCHANGED <<csv, group_dirs, sketches, projects, pages,
                         listing, runs_left, org>>

\* an exception leaves download_all_sketches: the stage ends, nothing is written
Stage3Abort(error) ==
  /\ s3' = S3Idle
  /\ last' = [last EXCEPT !.error = error, !.at = s3.idx]
  /\ run_progress' = 0
  /\ UNCHANGED <<diskVars, listing, runs_left, org>>

\* one iteration of the loop up to the first request (lines 109-122, 57-62)
Stage3Row ==
  /\ s3.pc = "row"
  /\ s3.idx <= Len(s3.df.rows)
  /\ IF "group_number" \notin s3.df.cols
     THEN Stage3Abort("KeyError")
     ELSE LET group_number == s3.df.rows[s3.idx]["group_number"]
          IN IF Falsy(group_number)
             THEN /\ s3' = [s3 EXCEPT !.sketch_paths = Append(@, EmptyStr),
                                      !.idx = @ + 1]
                  /\ UNCHANGED <<diskVars, last, listing, run_progress, runs_left, org>>
             ELSE IF group_number.t # "str"
             THEN \* group_data_dir / group_number: a Path joined with a number
                  Stage3Abort("TypeError")
             ELSE /\ group_dirs' = group_dirs \cup {group_number.s}
                  /\ s3' = [s3 EXCEPT !.pc = "fetch", !.branch = 1, !.attempts = << >>]
                  /\ last' = [last EXCEPT !.worked = @ \/ group_number.s \notin group_dirs]
                  /\ UNCHANGED <<csv, group_data, sketches, projects, pages,
                                 listing, run_progress, runs_left, org>>

\* one requests.get of download_sketch and what follows it (lines 65-85, 124)
Fetch(outcome) ==
  /\ s3.pc = "fetch"
  /\ LET row == s3.df.rows[s3.idx]
         group_number == row["group_number"].s
         branch == Branches[s3.branch]
         made == Append(s3.attempts,
                        [rec |-> s3.idx, branch |-> branch, outcome |-> outcome])
     IN IF ~IsRequestException(outcome) /\ outcome = "200"
        THEN /\ sketches' = (group_number :> Payload(row["name"].s, branch)) @@ sketches
             /\ s3' = [s3 EXCEPT !.attempts = made,
                                 !.sketch_paths = Append(@, SketchPath(group_number)),
                                 !.idx = @ + 1,
                                 !.pc = "row"]
        ELSE IF s3.branch < Len(Branches)
        THEN /\ s3' = [s3 EXCEPT !.attempts = made, !.branch = @ + 1]
             /\ UNCHANGED sketches
        ELSE /\ s3' = [s3 EXCEPT !.attempts = made,
                                 !.sketch_paths = Append(@, EmptyStr),
                                 !.idx = @ + 1,
                                 !.pc = "row"]
             /\ UNCHANGED sketches
  /\ last' = [last EXCEPT !.worked = TRUE]
  /\ UNCHANGED <<csv, group_data, group_dirs, projects, pages,
                 listing, run_progress, runs_left, org>>

Stage3Fetch == \E outcome \in Outcomes : Fetch(outcome)

\* df["sketch_path"] = sketch_paths
with_sketch_paths(df, sketch_paths) ==
  [df EXCEPT
     !.cols = @ \cup {"sketch_path"},
     !.rows = [i \in 1..Len(df.rows) |->
                 [df.rows[i] EXCEPT !["sketch_path"] = StrCell(sketch_paths[i])]]]

\* after the loop: the column is added and the dataset written (lines 126-144)
Stage3Finish ==
  /\ s3.pc = "row"
  /\ s3.idx > Len(s3.df.rows)
  /\ csv' = to_csv(with_sketch_paths(s3.df, s3.sketch_paths))
  /\ s3' = S3Idle
  /\ last' = [last EXCEPT !.worked = TRUE]
  /\ run_progress' = IF run_progress = 2 THEN 3 ELSE 0
  /\ UNCHANGED <<group_data, group_dirs, sketches, projects, pages,
                 listing, runs_left, org>>


(***************************************************************************)
(* 04-generate_quarto_pages.py                                             *)
(***************************************************************************)
Placeholder == <<"https://via.placeholder.com/400x300?text=No+Sketch">>

\* ord(c) of the characters group names are made of
CharCode(c) ==
  IF IsDigit(c) THEN 48 + DigitValue(c)
  ELSE IF c = "_" THEN 95
  ELSE IF c = "a" THEN 97
  ELSE IF c = "b" THEN 98
  ELSE IF c = "c" THEN 99
  ELSE IF c = "x" THEN 120
  ELSE IF c = "y" THEN 121
  ELSE 0

\* Python's str "<": by code point, a proper prefix first
RECURSIVE StrLess(_, _)
StrLess(a, b) ==
  IF b = EmptyStr THEN FALSE
  ELSE IF a = EmptyStr THEN TRUE
  ELSE IF CharCode(Head(a)) # CharCode(Head(b))
       THEN CharCode(Head(a)) < CharCode(Head(b))
       ELSE StrLess(Tail(a), Tail(b))

\* e put into the sorted list q after the entries that are not greater (stable)
RECURSIVE InsertByKey(_, _)
InsertByKey(q, e) ==
  IF q = << >> THEN <<e>>
  ELSE IF StrLess(e.key, Head(q).key) THEN <<e>> \o q
  ELSE <<Head(q)>> \o InsertByKey(Tail(q), e)

\* list.sort(key=lambda x: x[0])
RECURSIVE SortByKey(_)
SortByKey(q) ==
  IF q = << >> THEN << >>
  ELSE InsertByKey(SortByKey(SubSeq(q, 1, Len(q) - 1)), q[Len(q)])

\* int(float(group_number)) succeeds
IsNumericGroup(cell) ==
  \/ cell.t \in {"int", "float"}
  \/ cell.t = "str" /\ IsNumberText(cell.s)

\* int(float(group_number))
GroupInt(cell) == IF cell.t = "str" THEN DecValue(cell.s) ELSE cell.n

\* the non-numeric groups given the order of a numeric group one above the largest
NonNumericBase == 9000

\* create_project_page: the file's name (its key) and its frontmatter
ProjectPage(group_number, row, cols, sort_order) ==
  [title |-> group_number,
   subtitle |-> IF ~isna(row["project_name"]) THEN CellText(row["project_name"])
                ELSE EmptyStr,
   html_url |-> row["name"].s,
   image |-> IF "sketch_path" \in cols /\ ~isna(row["sketch_path"])
                  /\ row["sketch_path"].s # EmptyStr
             THEN <<"../">> \o row["sketch_path"].s
             ELSE Placeholder,
   order |-> sort_order]

\* the first pass over rows i.. (lines 126-166); acc holds the files, the count
\* and the deferred non-numeric groups
RECURSIVE FirstPass(_, _, _)
FirstPass(df, i, acc) ==
  IF i > Len(df.rows) THEN acc
  ELSE LET row == df.rows[i]
           group_number == row["group_number"]
       IN IF Falsy(group_number) \/ isna(group_number)
          THEN FirstPass(df, i + 1, acc)
          ELSE IF ~IsNumericGroup(group_number)
          THEN FirstPass(df, i + 1,
                 [acc EXCEPT !.non_numeric =
                    Append(@, [key |-> group_number.s, row |-> row])])
          ELSE LET group_num_int == GroupInt(group_number)
                   group_num_str == IntToText(group_num_int)
               IN FirstPass(df, i + 1,
                    [acc EXCEPT
                       !.pages = (group_num_str :>
                                    ProjectPage(group_num_str, row, df.cols, group_num_int))
                                 @@ @,
                       !.written = @ \cup {group_num_str},
                       !.pages_created = @ + 1])

\* the second pass over the sorted non-numeric groups idx.. (lines 172-202)
RECURSIVE SecondPass(_, _, _, _)
SecondPass(df, sorted, idx, acc) ==
  IF idx >= Len(sorted) THEN acc
  ELSE LET e == sorted[idx + 1]
           sort_order == NonNumericBase + idx
       IN SecondPass(df, sorted, idx + 1,
            [acc EXCEPT
               !.pages = (e.key :> ProjectPage(e.key, e.row, df.cols, sort_order)) @@ @,
               !.written = @ \cup {e.key},
               !.pages_created = @ + 1])

\* both passes of generate_all_pages over the files already in projects/
generate_pages(df, files) ==
  LET first == FirstPass(df, 1, [pages |-> files, written |-> {}, pages_created |-> 0,
                                 non_numeric |-> << >>])
  IN SecondPass(df, SortByKey(first.non_numeric), 0, first)

\* 04-generate_quarto_pages.py main
Stage4 ==
  /\ Quiet
  /\ IF ~csv.exists
     THEN MissingInput(4)
     ELSE LET df == read_csv(csv)
              upstream_ok == "sketch_path" \in csv.cols
          IN /\ projects' = TRUE
             /\ s3' = S3Idle
             /\ IF "group_number" \notin df.cols
                THEN \* row["group_number"] of the first row raises KeyError
                     /\ last' = Report(4, "KeyError", upstream_ok, ~projects)
                     /\ run_progress' = 0
                     /\ UNCHANGED pages
                ELSE LET out == generate_pages(df, pages)
                     IN /\ pages' = out.pages
                        /\ last' = [Report(4, "none", upstream_ok,
                                           ~projects \/ out.written # {})
                                      EXCEPT !.pages_created = out.pages_created,
                                             !.written = out.written]
                        /\ run_progress' = IF run_progress = 3 THEN 4 ELSE 0
             /\ UNCHANGED <<csv, group_data, group_dirs, sketches, listing, runs_left, org>>

(***************************************************************************)
(* Specification Spec: the four entry points invoked in any order from an  *)
(* empty workspace, discovery at most MaxDiscoveries times.                *)
(***************************************************************************)
Init ==
  /\ EmptyWorkspace
  /\ s3 = S3Idle
  /\ last = NoStage
  /\ listing = << >>
  /\ run_progress = 0
  /\ runs_left = MaxDiscoveries
  /\ org = OrgNames
  /\ ParseIdle
  /\ TokIdle

Next ==
  \/ Stage1 /\ UNCHANGED <<parseVars, tokVars>>
  \/ Stage2 /\ UNCHANGED <<parseVars, tokVars>>
  \/ Stage3Start /\ UNCHANGED <<parseVars, tokVars>>
  \/ Stage3Row /\ UNCHANGED <<parseVars, tokVars>>
  \/ Stage3Fetch /\ UNCHANGED <<parseVars, tokVars>>
  \/ Stage3Finish /\ UNCHANGED <<parseVars, tokVars>>
  \/ Stage4 /\ UNCHANGED <<parseVars, tokVars>>

Spec == Init /\ [][Next]_vars


(***************************************************************************)
(* Specification SpecRuns: the pipeline run again and again, each run its  *)
(* four stages in order (a run that fails is followed by a new run), over  *)
(* an organization of three repositories.                                  *)
(***************************************************************************)
RunNames ==
  { Repo(<<"a", "_", "x">>),
    Repo(<<"a", "_", "y">>),
    Repo(<<"1", "_", "a">>) }

InitRuns ==
  /\ EmptyWorkspace
  /\ s3 = S3Idle
  /\ last = NoStage
  /\ listing = << >>
  /\ run_progress = 0
  /\ runs_left = MaxRuns
  /\ org = RunNames
  /\ ParseIdle
  /\ TokIdle

NextRuns ==
  \/ run_progress \in {0, 4} /\ Stage1 /\ UNCHANGED <<parseVars, tokVars>>
  \/ run_progress = 1 /\ Stage2 /\ UNCHANGED <<parseVars, tokVars>>
  \/ run_progress = 2 /\ Stage3Start /\ UNCHANGED <<parseVars, tokVars>>
  \/ Stage3Row /\ UNCHANGED <<parseVars, tokVars>>
  \/ Stage3Fetch /\ UNCHANGED <<parseVars, tokVars>>
  \/ Stage3Finish /\ UNCHANGED <<parseVars, tokVars>>
  \/ run_progress = 3 /\ Stage4 /\ UNCHANGED <<parseVars, tokVars>>

SpecRuns == InitRuns /\ [][NextRuns]_vars

(***************************************************************************)
(* C2: in download_sketch "main" is attempted first and "master" exactly   *)
(* when the "main" attempt failed (a status other than 200, a timeout or a *)
(* transport error); when "main" fails and "master" returns 200, the       *)
(* payload of "master" is what <group_number>/sketch.png holds and the     *)
(* non-empty relative path is recorded.  s3.attempts holds the requests    *)
(* made for the record download_sketch was entered for last.               *)
(***************************************************************************)
C2_MainThenMaster ==
  LET made == s3.attempts
  IN /\ Len(made) <= 2
     /\ Len(made) >= 1 => made[1].branch = "main"
     /\ Len(made) = 2 =>
          /\ made[2].branch = "master"
          /\ made[2].rec = made[1].rec
          /\ made[1].outcome # "200"
     /\ s3.pc = "fetch" =>
          /\ made = << >> => Branches[s3.branch] = "main"
          /\ made # << >> => Branches[s3.branch] = "master" /\ made[1].outcome # "200"
     /\ (s3.pc = "row" /\ made # << >>) =>
          LET r == made[1].rec
              row == s3.df.rows[r]
              group_number == row["group_number"].s
          IN /\ group_number # EmptyStr
             /\ made[1].outcome # "200" => Len(made) = 2
             /\ (Len(made) = 2 /\ made[2].outcome = "200") =>
                  /\ group_number \in DOMAIN sketches
                  /\ sketches[group_number] = Payload(row["name"].s, "master")
                  /\ s3.sketch_paths[r] = SketchPath(group_number)
                  /\ s3.sketch_paths[r] # EmptyStr

\* download_sketch has returned after "main" timed out and "master" answered 200
C2_Witness ==
  /\ s3.pc = "row"
  /\ Len(s3.attempts) = 2
  /\ s3.attempts[1].outcome = "Timeout"
  /\ s3.attempts[2].outcome = "200"

(***************************************************************************)
(* C3: Asset Retrieval never aborts: over any list of records that Name    *)
(* Decomposition wrote, whatever the fetch outcomes, download_all_sketches *)
(* processes every record in order, records "" for a record whose two      *)
(* attempts failed and completes with one sketch_path per record.          *)
(***************************************************************************)
C3_RetrievalCompletes ==
  /\ (last.stage = 3 /\ last.upstream_ok) => last.error = "none"
  /\ s3.pc \in {"row", "fetch"} => Len(s3.sketch_paths) = s3.idx - 1
  /\ (s3.pc = "row" /\ Len(s3.attempts) = 2 /\ s3.attempts[2].outcome # "200") =>
       s3.sketch_paths[s3.attempts[1].rec] = EmptyStr

(***************************************************************************)
(* C4: a record whose group_number is empty or missing in the dataset read *)
(* back from the CSV file triggers no network call and no directory, gets  *)
(* sketch_path "" and the stage continues with the next record.            *)
(***************************************************************************)
C4_MissingGroupSkipped ==
  /\ (last.stage = 3 /\ last.upstream_ok /\ last.at > 0) =>
       ~isna(read_csv(csv).rows[last.at]["group_number"])
  /\ s3.pc = "fetch" => ~isna(s3.df.rows[s3.idx]["group_number"])
  /\ (s3.pc \in {"row", "fetch"} /\ "group_number" \in s3.df.cols) =>
       \A i \in 1..Len(s3.sketch_paths) :
         isna(s3.df.rows[i]["group_number"]) => s3.sketch_paths[i] = EmptyStr

(***************************************************************************)
(* C5: a group_number written by Name Decomposition reaches the later      *)
(* stages as the same string: the value Asset Retrieval uses for a record  *)
(* and the key and title of every generated page are the string            *)
(* parse_repo_name produced, never a numerically coerced value.            *)
(***************************************************************************)
C5_GroupRoundTrips ==
  /\ (s3.pc \in {"row", "fetch"} /\ "group_number" \in s3.df.cols) =>
       \A i \in 1..Len(s3.df.rows) :
         LET produced == parse_repo_name(s3.df.rows[i]["name"].s, Pattern)[1]
         IN produced # EmptyStr => s3.df.rows[i]["group_number"] = StrCell(produced)
  /\ \A key \in DOMAIN pages :
       /\ key = parse_repo_name(pages[key].html_url, Pattern)[1]
       /\ pages[key].title = key

(***************************************************************************)
(* C6: every numeric page has order = its integer value, every non-numeric *)
(* page an order from 9000 up, and every non-numeric page's order is       *)
(* greater than every numeric page's order.                                *)
(***************************************************************************)
C6_NonNumericAfterNumeric ==
  (last.stage = 4 /\ last.error = "none" /\ last.upstream_ok) =>
    \A k1 \in last.written :
      /\ IsNumberText(k1) => pages[k1].order = DecValue(k1)
      /\ ~IsNumberText(k1) => pages[k1].order >= NonNumericBase
      /\ \A k2 \in last.written :
           (IsNumberText(k1) /\ ~IsNumberText(k2)) => pages[k2].order > pages[k1].order

(***************************************************************************)
(* C7: when generate_all_pages finishes, every record with a non-empty     *)
(* group_number has the file group-<group_number>.qmd holding its own      *)
(* title, subtitle and html_url; the files written are as many as those    *)
(* records and as the reported pages_created.                              *)
(***************************************************************************)
C7_OnePagePerRecord ==
  (last.stage = 4 /\ last.error = "none" /\ last.upstream_ok) =>
    LET grouped == {i \in 1..Len(csv.rows) : csv.rows[i]["group_number"] # EmptyStr}
    IN /\ \A i \in grouped :
            LET key == csv.rows[i]["group_number"]
            IN /\ key \in DOMAIN pages
               /\ pages[key].title = key
               /\ pages[key].subtitle = csv.rows[i]["project_name"]
               /\ pages[key].html_url = csv.rows[i]["name"]
       /\ Cardinality(last.written) = Cardinality(grouped)
       /\ last.pages_created = Cardinality(grouped)

(***************************************************************************)
(* C8: a stage invoked while its upstream stage has not produced its       *)
(* output fails with the missing-input error before doing any work: no     *)
(* directory created, no file written, no network call.                    *)
(***************************************************************************)
C8_MissingUpstreamFails ==
  ~last.upstream_ok => (last.error = "FileNotFoundError" /\ ~last.worked)

(***************************************************************************)
(* C10: after complete four-stage runs the dataset, the asset files and    *)
(* the page files are exactly those the last run alone would produce from  *)
(* an empty workspace: the dataset lists the last discovery's names, the   *)
(* group directories and sketches are those of its records and successful  *)
(* fetches, the pages those generated from its dataset alone.              *)
(***************************************************************************)
C10_LastRunOnly ==
  run_progress = 4 =>
    /\ csv.exists
    /\ [i \in 1..Len(csv.rows) |-> csv.rows[i]["name"]] = listing
    /\ group_dirs = {csv.rows[i]["group_number"] : i \in 1..Len(csv.rows)} \ {EmptyStr}
    /\ DOMAIN sketches =
         {csv.rows[i]["group_number"] :
            i \in {j \in 1..Len(csv.rows) : csv.rows[j]["sketch_path"] # EmptyStr}}
    /\ pages = generate_pages(read_csv(csv), << >>).pages

(***************************************************************************)
(* Specification SpecFrame: the four entry points invoked in any order     *)
(* from an empty workspace, over an organization whose repository names    *)
(* hold numeric-looking groups and project names next to textual ones.     *)
(***************************************************************************)
FrameNames ==
  { Repo(<<"a", "_", "0", "1">>),
    Repo(<<"a", "_", "1">>),
    Repo(<<"0", "0", "_", "a">>),
    Repo(<<"b">>) }

InitFrame ==
  /\ EmptyWorkspace
  /\ s3 = S3Idle
  /\ last = NoStage
  /\ listing = << >>
  /\ run_progress = 0
  /\ runs_left = MaxDiscoveries
  /\ org = FrameNames
  /\ ParseIdle
  /\ TokIdle

SpecFrame == InitFrame /\ [][Next]_vars

\* the rows of two dataset files agree outside the derived columns
SameFrame(before, after, derived) ==
  /\ Len(after.rows) = Len(before.rows)
  /\ \A i \in 1..Len(before.rows) : \A c \in Columns \ derived :
       after.rows[i][c] = before.rows[i][c]

(***************************************************************************)
(* C11: the dataset Name Decomposition writes has the rows of the dataset  *)
(* it read, in the same order, with every column other than group_number   *)
(* and project_name unchanged; the dataset Asset Retrieval writes has the  *)
(* rows of the dataset it read, in the same order, with every column other *)
(* than sketch_path unchanged, records skipped for lacking a group_number  *)
(* included.                                                               *)
(***************************************************************************)
C11_FramePreserved ==
  [][ /\ (Stage2 /\ csv.exists) =>
           SameFrame(csv, csv', {"group_number", "project_name"})
      /\ Stage3Finish => SameFrame(csv, csv', {"sketch_path"}) ]_vars

\* C11, the part that holds: no stage adds, drops or reorders records
C11_SameNames ==
  [][ (Stage2 \/ Stage3Finish) =>
        [i \in 1..Len(csv'.rows) |-> csv'.rows[i]["name"]]
          = [i \in 1..Len(csv.rows) |-> csv.rows[i]["name"]] ]_vars

====
